---- MODULE Spec2Model ----
(***************************************************************************)
(* Model of rssi.py, the Streamlit "Assistant RSSI": the retrieval         *)
(* pipeline (lire_et_chunker_pdfs, construire_index, rechercher_passages), *)
(* the conversation log (sauvegarder_echange,                              *)
(* charger_historique_persistant), the question action of onglets[0] and   *)
(* the add-document action of onglets[4].                                  *)
(*                                                                         *)
(* A text is known by its length and by one whitespace-only interval       *)
(* [bdeb, bfin): the chunker reads nothing else of a text (len(), slicing  *)
(* and strip()).  A chunk is a slice [deb, fin) of a text.                 *)
(***************************************************************************)
EXTENDS Integers, Sequences, FiniteSets, TLC

VARIABLES
    dossier_existe,   \* the directory "docs" exists
    docs,             \* os.listdir("docs"), in listing order: <<[nom, contenu]>>
    taille_chunk,     \* argument taille_chunk of lire_et_chunker_pdfs
    chevauchement,    \* argument chevauchement of lire_et_chunker_pdfs
    top_k,            \* argument top_k of rechercher_passages
    question,         \* the question of the text area, argument of rechercher_passages
    chunks,           \* chunks of the last run of the pipeline
    metadatas,        \* metadatas of the last run of the pipeline
    avertissements,   \* files named by st.warning in the last run of the pipeline
    indices,          \* indices[0] of the last run of the pipeline
    passages,         \* passages of the last run of the pipeline
    prompt,           \* passages put in the prompt posted to the generation service
    dernier,          \* the last operation performed
    exception,        \* the exception the last operation ended with, or "aucune"
    reponse_affichee, \* the answer shown by st.markdown(answer)
    historique,       \* st.session_state["historique"]
    journal_existe,   \* conversations.jsonl exists
    journal,          \* the characters of conversations.jsonl
    ecrits,           \* the (question, reponse) pairs sauvegarder_echange has written
    horloge           \* datetime.now(), counted in calls

vars == <<dossier_existe, docs, taille_chunk, chevauchement, top_k, question, chunks,
          metadatas, avertissements, indices, passages, prompt, dernier,
          exception, reponse_affichee, historique, journal_existe, journal,
          ecrits, horloge>>

(***************************************************************************)
(* Bounds of the model and constants of the program.                       *)
(***************************************************************************)
MaxLongueur == 1300      \* longest text drawn for a direct call of the chunker
MaxTopK == 4             \* largest top_k drawn for a direct call of the search
MaxLignes == 2           \* lines the log gets in one behaviour

TailleChunkDefaut == 500
ChevauchementDefaut == 100
TopKDefaut == 3

Min(a, b) == IF a < b THEN a ELSE b

Range(s) == {s[i] : i \in 1..Len(s)}

(***************************************************************************)
(* Texts, files and directories.                                           *)
(***************************************************************************)
Texte(len, bdeb, bfin) == [len |-> len, bdeb |-> bdeb, bfin |-> bfin]

Lisible(t) == [lisible |-> TRUE, texte |-> t]

\* A file fitz.open or page.get_text raises on.
Illisible == [lisible |-> FALSE, texte |-> Texte(0, 0, 0)]

Fichier(nom, contenu) == [nom |-> nom, contenu |-> contenu]

\* str.lower() on the file names of the model.
lower(nom) ==
    CASE nom = "B.PDF" -> "b.pdf"
      [] OTHER -> nom

\* fichier.lower().endswith(".pdf")
EstPdf(nom) == lower(nom) \in {"a.pdf", "b.pdf"}

(***************************************************************************)
(* lire_et_chunker_pdfs                                                    *)
(***************************************************************************)
\* texte[i:i + taille_chunk]
Tranche(t, i, tc) == [txt |-> t, deb |-> i, fin |-> Min(i + tc, t.len)]

\* len(chunk.strip()) > 0: the slice holds a character that is not whitespace.
NonVide(c) ==
    /\ c.deb < c.fin
    /\ ~(c.txt.bdeb <= c.deb /\ c.fin <= c.txt.bfin)

\* The loop of lines 45-49 from index i on, for a step pas > 0.
RECURSIVE Boucle(_, _, _, _, _)
Boucle(t, i, tc, pas, acc) ==
    IF i >= t.len THEN acc
    ELSE LET chunk == Tranche(t, i, tc)
         IN  Boucle(t, i + pas, tc, pas,
                    IF NonVide(chunk) THEN Append(acc, chunk) ELSE acc)

\* Decouper with the windows laid end to end: the step is taille_chunk.
DecouperSansChevauchement(contenu, tc, ch) ==
    IF ~contenu.lisible THEN [leve |-> TRUE, chunks |-> <<>>]
    ELSE IF tc - ch = 0 THEN [leve |-> TRUE, chunks |-> <<>>]
    ELSE IF tc - ch < 0 THEN [leve |-> FALSE, chunks |-> <<>>]
    ELSE [leve |-> FALSE, chunks |-> Boucle(contenu.texte, 0, tc, tc, <<>>)]

\* The body of the try of lines 38-49 for one file: the chunks it appends, or
\* the exception it raises before appending any.  range() raises ValueError
\* on a step of zero and is empty on a negative step.
Decouper(contenu, tc, ch) ==
    IF ~contenu.lisible THEN [leve |-> TRUE, chunks |-> <<>>]
    ELSE IF tc - ch = 0 THEN [leve |-> TRUE, chunks |-> <<>>]
    ELSE IF tc - ch < 0 THEN [leve |-> FALSE, chunks |-> <<>>]
    ELSE [leve |-> FALSE, chunks |-> Boucle(contenu.texte, 0, tc, tc - ch, <<>>)]

\* Parcours with the try around the whole loop: the first file that raises
\* ends the listing.
RECURSIVE ParcoursArret(_, _, _, _, _)
ParcoursArret(liste, n, tc, ch, acc) ==
    IF n > Len(liste) THEN acc
    ELSE IF ~EstPdf(liste[n].nom) THEN ParcoursArret(liste, n + 1, tc, ch, acc)
    ELSE LET r == Decouper(liste[n].contenu, tc, ch)
         IN  IF r.leve
             THEN [chunks |-> acc.chunks, metadatas |-> acc.metadatas,
                   avertissements |-> acc.avertissements \cup {liste[n].nom}]
             ELSE ParcoursArret(liste, n + 1, tc, ch,
                     [chunks |-> acc.chunks \o r.chunks,
                      metadatas |-> acc.metadatas
                          \o [j \in 1..Len(r.chunks) |-> liste[n].nom],
                      avertissements |-> acc.avertissements])

\* The for loop of lines 34-52 from the n-th listed file on.
RECURSIVE Parcours(_, _, _, _, _)
Parcours(liste, n, tc, ch, acc) ==
    IF n > Len(liste) THEN acc
    ELSE IF ~EstPdf(liste[n].nom) THEN Parcours(liste, n + 1, tc, ch, acc)
    ELSE LET r == Decouper(liste[n].contenu, tc, ch)
         IN  Parcours(liste, n + 1, tc, ch,
                [chunks |-> acc.chunks \o r.chunks,
                 metadatas |-> acc.metadatas
                     \o [j \in 1..Len(r.chunks) |-> liste[n].nom],
                 avertissements |-> IF r.leve
                     THEN acc.avertissements \cup {liste[n].nom}
                     ELSE acc.avertissements])

\* lire_et_chunker_pdfs behind a cache that is never invalidated: the chunks
\* of the previous run are returned when there are any.
lire_et_chunker_pdfs_cache(existe, liste, tc, ch) ==
    IF ~existe
    THEN [exception |-> "FileNotFoundError", chunks |-> <<>>, metadatas |-> <<>>,
          avertissements |-> {}]
    ELSE IF chunks # <<>>
    THEN [exception |-> "aucune", chunks |-> chunks, metadatas |-> metadatas,
          avertissements |-> avertissements]
    ELSE [exception |-> "aucune"] @@
         Parcours(liste, 1, tc, ch,
                  [chunks |-> <<>>, metadatas |-> <<>>, avertissements |-> {}])

\* os.listdir raises FileNotFoundError outside the try when "docs" is missing.
lire_et_chunker_pdfs(existe, liste, tc, ch) ==
    IF ~existe
    THEN [exception |-> "FileNotFoundError", chunks |-> <<>>, metadatas |-> <<>>,
          avertissements |-> {}]
    ELSE [exception |-> "aucune"] @@
         Parcours(liste, 1, tc, ch,
                  [chunks |-> <<>>, metadatas |-> <<>>, avertissements |-> {}])

(***************************************************************************)
(* The embedding model, construire_index and rechercher_passages           *)
(***************************************************************************)
\* model.encode on a chunk and on a question: a fixed function of the text,
\* here to one coordinate.
EncoderChunk(c) == ((c.deb \div 100) + 2 * (c.txt.len \div 100)) % 5

EncoderQuestion(q) == Len(q) % 5

\* IndexFlatL2: squared Euclidean distance.
Distance(u, v) == (u - v) * (u - v)

\* model.encode([]) is an array of shape (0,), so vecteurs.shape[1] raises
\* IndexError; otherwise the index holds the vectors in the order of chunks.
construire_index(cs) ==
    IF Len(cs) = 0 THEN [exception |-> "IndexError", index |-> <<>>]
    ELSE [exception |-> "aucune",
          index |-> [i \in 1..Len(cs) |-> EncoderChunk(cs[i])]]

\* index.search(vecteur_question, k)[1][0]: the labels (from 0) of the k
\* nearest vectors by ascending distance, in any order among equal distances,
\* padded with -1 when the index holds fewer than k vectors.
RECURSIVE PlusProches(_, _, _, _)
PlusProches(index, vq, m, pris) ==
    IF m = 0 THEN {<<>>}
    ELSE LET reste == (0..(Len(index) - 1)) \ pris
             d(lab) == Distance(index[lab + 1], vq)
             proches == {lab \in reste : \A x \in reste : d(lab) <= d(x)}
         IN  UNION { {<<lab>> \o s :
                        s \in PlusProches(index, vq, m - 1, pris \cup {lab})} :
                     lab \in proches }

\* Recherches with the labels by descending distance.
RecherchesDecroissant(index, vq, k) ==
    LET m == Min(k, Len(index))
    IN  {[i \in 1..k |-> (s \o [j \in 1..(k - m) |-> -1])[k + 1 - i]] :
            s \in PlusProches(index, vq, m, {})}

Recherches(index, vq, k) ==
    LET m == Min(k, Len(index))
    IN  {s \o [i \in 1..(k - m) |-> -1] : s \in PlusProches(index, vq, m, {})}

\* chunks[i] for a Python list: a negative i counts from the end.
ElementListe(liste, i) ==
    IF 0 <= i /\ i < Len(liste) THEN [exception |-> "aucune", val |-> liste[i + 1]]
    ELSE IF i < 0 /\ -i <= Len(liste)
    THEN [exception |-> "aucune", val |-> liste[Len(liste) + i + 1]]
    ELSE [exception |-> "IndexError", val |-> <<>>]

\* [chunks[i] for i in indices[0]]
rechercher_passages(cs, ind) ==
    IF \E j \in 1..Len(ind) : ElementListe(cs, ind[j]).exception # "aucune"
    THEN [exception |-> "IndexError", passages |-> <<>>]
    ELSE [exception |-> "aucune",
          passages |-> [j \in 1..Len(ind) |-> ElementListe(cs, ind[j]).val]]

(***************************************************************************)
(* Strings are sequences of characters.  The JSON text of the log is made  *)
(* of the same characters, so that a quote, a backslash or a newline of a  *)
(* question can be taken for JSON syntax when it is not escaped.  A key    *)
(* ("timestamp", "question", "reponse", "response") counts as one          *)
(* character.                                                              *)
(***************************************************************************)
QUOTE == "\""
BSL == "\\"
NL == "\n"

Chiffres == <<"0", "1", "2", "3", "4", "5", "6", "7", "8", "9">>

\* datetime.now().isoformat() at the h-th call.
isoformat(h) == <<"T", Chiffres[((h \div 10) % 10) + 1], Chiffres[(h % 10) + 1]>>

\* len(s.strip()) > 0, and not question.strip()
NonBlanche(s) == \E i \in 1..Len(s) : s[i] \notin {" ", NL}

\* EchapperCaractere without the escape of the newline.
EchapperSansNouvelleLigne(c) ==
    CASE c = QUOTE -> <<BSL, QUOTE>>
      [] c = BSL -> <<BSL, BSL>>
      [] OTHER -> <<c>>

\* The escape json.dumps(ensure_ascii=False) writes for one character.
EchapperCaractere(c) ==
    CASE c = QUOTE -> <<BSL, QUOTE>>
      [] c = BSL -> <<BSL, BSL>>
      [] c = NL -> <<BSL, "n">>
      [] OTHER -> <<c>>

RECURSIVE Echapper(_)
Echapper(s) ==
    IF s = <<>> THEN <<>> ELSE EchapperCaractere(Head(s)) \o Echapper(Tail(s))

\* json.dumps of a string.
dumps_chaine(s) == <<QUOTE>> \o Echapper(s) \o <<QUOTE>>

\* json.dumps of the dict of lines 97-101, keys in insertion order, with the
\* default separators ", " and ": ".
dumps_echange(ts, q, reponse) ==
    <<"{">> \o dumps_chaine(<<"timestamp">>) \o <<":", " ">> \o dumps_chaine(ts)
        \o <<",", " ">> \o dumps_chaine(<<"question">>) \o <<":", " ">>
        \o dumps_chaine(q)
        \o <<",", " ">> \o dumps_chaine(<<"reponse">>) \o <<":", " ">>
        \o dumps_chaine(reponse) \o <<"}">>

\* The line sauvegarder_echange appends.
LigneEchange(ts, q, reponse) == dumps_echange(ts, q, reponse) \o <<NL>>

(***************************************************************************)
(* json.loads, for the JSON values the log of the model can hold: a string *)
(* or an object whose members are strings.                                 *)
(***************************************************************************)
Echec == [ok |-> FALSE]

\* The characters of a JSON string after its opening quote, up to the
\* closing quote: a raw newline is a control character and is refused.
RECURSIVE LireCorps(_, _, _)
LireCorps(s, j, acc) ==
    IF j > Len(s) THEN Echec
    ELSE IF s[j] = QUOTE THEN [ok |-> TRUE, val |-> acc, suite |-> j + 1]
    ELSE IF s[j] = BSL
    THEN IF j + 1 > Len(s) THEN Echec
         ELSE IF s[j + 1] \in {QUOTE, BSL}
         THEN LireCorps(s, j + 2, Append(acc, s[j + 1]))
         ELSE IF s[j + 1] = "n" THEN LireCorps(s, j + 2, Append(acc, NL))
         ELSE Echec
    ELSE IF s[j] = NL THEN Echec
    ELSE LireCorps(s, j + 1, Append(acc, s[j]))

LireChaine(s, i) ==
    IF i > Len(s) THEN Echec
    ELSE IF s[i] # QUOTE THEN Echec
    ELSE LireCorps(s, i + 1, <<>>)

\* Index of the first character from i on that is not JSON whitespace.
RECURSIVE SauterBlancs(_, _)
SauterBlancs(s, i) ==
    IF i > Len(s) THEN i
    ELSE IF s[i] \in {" ", NL} THEN SauterBlancs(s, i + 1)
    ELSE i

\* The members of an object from index i on, d being the members read so far
\* (a repeated key keeps its last value).
RECURSIVE LireMembres(_, _, _)
LireMembres(s, i, d) ==
    LET cle == LireChaine(s, i)
    IN  IF ~cle.ok THEN Echec
        ELSE LET j == SauterBlancs(s, cle.suite)
             IN  IF j > Len(s) THEN Echec
                 ELSE IF s[j] # ":" THEN Echec
                 ELSE LET v == LireChaine(s, SauterBlancs(s, j + 1))
                      IN  IF ~v.ok THEN Echec
                          ELSE LET k == SauterBlancs(s, v.suite)
                                   dd == (cle.val :> v.val) @@ d
                               IN  IF k > Len(s) THEN Echec
                                   ELSE IF s[k] = "}"
                                   THEN [ok |-> TRUE, genre |-> "objet",
                                         val |-> dd, suite |-> k + 1]
                                   ELSE IF s[k] = ","
                                   THEN LireMembres(s, SauterBlancs(s, k + 1), dd)
                                   ELSE Echec

LireValeur(s, i) ==
    IF i > Len(s) THEN Echec
    ELSE IF s[i] = QUOTE
    THEN LET r == LireChaine(s, i)
         IN  IF r.ok THEN [ok |-> TRUE, genre |-> "chaine", val |-> r.val,
                           suite |-> r.suite]
             ELSE Echec
    ELSE IF s[i] = "{"
    THEN LET j == SauterBlancs(s, i + 1)
         IN  IF j > Len(s) THEN Echec
             ELSE IF s[j] = "}"
             THEN [ok |-> TRUE, genre |-> "objet", val |-> <<>>, suite |-> j + 1]
             ELSE LireMembres(s, j, <<>>)
    ELSE Echec

\* json.loads(ligne): one value, with nothing but whitespace around it.
loads(s) ==
    LET v == LireValeur(s, SauterBlancs(s, 1))
    IN  IF ~v.ok THEN Echec
        ELSE IF SauterBlancs(s, v.suite) <= Len(s) THEN Echec
        ELSE v

\* "for ligne in f": the lines of the file, each with its newline.
RECURSIVE Lignes(_, _, _, _)
Lignes(s, i, courante, acc) ==
    IF i > Len(s) THEN (IF courante = <<>> THEN acc ELSE Append(acc, courante))
    ELSE IF s[i] = NL
    THEN Lignes(s, i + 1, <<>>, Append(acc, Append(courante, NL)))
    ELSE Lignes(s, i + 1, Append(courante, s[i]), acc)

\* Lines 114-118 for one line: the history with the line's exchange appended,
\* or unchanged when json.loads, e["question"] or e["reponse"] raises.
ChargerLigne(h, ligne) ==
    LET e == loads(ligne)
    IN  IF ~e.ok THEN h
        ELSE IF e.genre # "objet" THEN h
        ELSE IF <<"question">> \notin DOMAIN e.val THEN h
        ELSE IF <<"reponse">> \notin DOMAIN e.val THEN h
        ELSE Append(h, [question |-> e.val[<<"question">>],
                        reponse |-> e.val[<<"reponse">>]])

RECURSIVE ChargerLignes(_, _, _)
ChargerLignes(ls, n, h) ==
    IF n > Len(ls) THEN h ELSE ChargerLignes(ls, n + 1, ChargerLigne(h, ls[n]))

charger_historique_persistant(existe, fichier) ==
    IF ~existe THEN <<>>
    ELSE ChargerLignes(Lignes(fichier, 1, <<>>, <<>>), 1, <<>>)

(***************************************************************************)
(* The documents, questions and replies the actions draw from.             *)
(***************************************************************************)
T300 == Texte(300, 0, 0)          \* one window
T600 == Texte(600, 0, 0)          \* windows [0:500] and [400:600]
TBlanc == Texte(900, 0, 900)      \* whitespace only
TTrou == Texte(1700, 400, 1300)   \* windows 400 and 800 are whitespace only

NomsAjout == {"a.pdf", "B.PDF"}

ContenusAjout == {Lisible(T300), Lisible(T600)}

\* Directories the session of Spec starts on, and the upload it makes.
DossiersInitiaux == { <<>> }

\* Directories the session of SpecCorpus starts on; it uploads NomsAjout and
\* ContenusAjout.
DossiersCorpus ==
    { <<>>,
      <<Fichier("notes.txt", Lisible(T300))>>,
      <<Fichier("a.pdf", Illisible)>>,
      <<Fichier("a.pdf", Lisible(TBlanc))>>,
      <<Fichier("a.pdf", Lisible(TTrou)), Fichier("B.PDF", Illisible)>> }

QuestionSimple == <<"a">>
QuestionSpeciale == <<QUOTE, "a", BSL, NL, "n">>
QuestionBlanche == <<" ", NL>>

Questions == {QuestionSpeciale, QuestionBlanche}

TexteReponse == <<"a", NL, QUOTE, BSL>>

\* What requests.post and response.json() give: an exception, or the dict of
\* the reply's body.
Repliques ==
    { [genre |-> "ConnectionError", corps |-> <<>>],
      [genre |-> "JSONDecodeError", corps |-> <<>>],
      [genre |-> "json", corps |-> ("response" :> TexteReponse)],
      [genre |-> "json", corps |-> ("response" :> <<>>)],
      [genre |-> "json", corps |-> ("error" :> <<"a">>)] }

\* The default of line 168.
PasDeReponseGeneree == <<"Pas de reponse generee.">>

\* dict.get(cle, defaut)
get(d, cle, defaut) == IF cle \in DOMAIN d THEN d[cle] ELSE defaut

\* Lines 162-168: the answer, or the exception of the call.
generer(replique) ==
    IF replique.genre # "json" THEN [exception |-> replique.genre, answer |-> <<>>]
    ELSE [exception |-> "aucune",
          answer |-> get(replique.corps, "response", PasDeReponseGeneree)]

\* Lines that are not an exchange: a blank line, a line cut inside a string,
\* an object without "reponse", a JSON string.
LignesMalformees ==
    { <<NL>>,
      <<"{", QUOTE, "question", QUOTE, ":", " ", QUOTE, "a", NL>>,
      <<"{", QUOTE, "question", QUOTE, ":", " ", QUOTE, "a", QUOTE, "}", NL>>,
      <<QUOTE, "a", QUOTE, NL>> }

PasDePrompt == [envoye |-> FALSE, passages |-> <<>>]
PasDeReponse == [montree |-> FALSE, texte |-> <<>>]

(***************************************************************************)
(* The state after the script's first run of a session.                    *)
(***************************************************************************)
InitCommun ==
    /\ question = <<>>
    /\ chunks = <<>>
    /\ metadatas = <<>>
    /\ avertissements = {}
    /\ indices = <<>>
    /\ passages = <<>>
    /\ prompt = PasDePrompt
    /\ dernier = "aucune"
    /\ exception = "aucune"
    /\ reponse_affichee = PasDeReponse
    /\ journal_existe \in BOOLEAN
    /\ journal = <<>>
    /\ ecrits = <<>>
    /\ horloge = 0
    /\ historique = charger_historique_persistant(journal_existe, journal)

Defauts ==
    /\ taille_chunk = TailleChunkDefaut
    /\ chevauchement = ChevauchementDefaut
    /\ top_k = TopKDefaut

Init ==
    /\ InitCommun
    /\ dossier_existe \in BOOLEAN
    /\ docs \in (IF dossier_existe THEN DossiersInitiaux ELSE {<<>>})
    /\ Defauts

InitCorpus ==
    /\ InitCommun
    /\ dossier_existe \in BOOLEAN
    /\ docs \in (IF dossier_existe THEN DossiersCorpus ELSE {<<>>})
    /\ Defauts

(***************************************************************************)
(* onglets[0]: the button "Envoyer".                                       *)
(***************************************************************************)
\* Lines of the log: every line written to it ends with a newline.
NbLignes == Cardinality({i \in 1..Len(journal) : journal[i] = NL})

\* The pipeline of lines 147-149 does not run.
SansPipeline == UNCHANGED <<chunks, metadatas, avertissements, indices, passages>>

SansEchange == UNCHANGED <<historique, journal_existe, journal, ecrits, horloge>>

\* The except of lines 179-180 before the prompt is posted.
AvantPrompt(e) ==
    /\ exception' = e
    /\ prompt' = PasDePrompt
    /\ reponse_affichee' = PasDeReponse
    /\ SansEchange

\* sauvegarder_echange(question, answer): the timestamp is taken, then the
\* file is opened for appending, which fails or writes the whole line.
sauvegarder_echange(q, reponse, ecriture_ok) ==
    /\ horloge' = horloge + 1
    /\ IF ecriture_ok
       THEN /\ journal' = journal \o LigneEchange(isoformat(horloge), q, reponse)
            /\ journal_existe' = TRUE
            /\ ecrits' = Append(ecrits, [question |-> q, reponse |-> reponse])
            /\ exception' = "aucune"
       ELSE /\ exception' = "OSError"
            /\ UNCHANGED <<journal, journal_existe, ecrits>>

\* Lines 162-177, once the prompt is composed.
ApresPrompt(q, replique, ecriture_ok) ==
    LET g == generer(replique)
    IN  IF g.exception # "aucune"
        THEN /\ exception' = g.exception
             /\ reponse_affichee' = PasDeReponse
             /\ SansEchange
        ELSE /\ reponse_affichee' = [montree |-> TRUE, texte |-> g.answer]
             /\ historique' = Append(historique,
                                     [question |-> q, reponse |-> g.answer])
             /\ sauvegarder_echange(q, g.answer, ecriture_ok)

\* Lines 140-141: a blank question.
EnvoyerVide(q) ==
    /\ ~NonBlanche(q)
    /\ question' = q
    /\ dernier' = "envoyer_vide"
    /\ exception' = "aucune"
    /\ prompt' = PasDePrompt
    /\ reponse_affichee' = PasDeReponse
    /\ SansEchange
    /\ SansPipeline
    /\ UNCHANGED <<dossier_existe, docs, taille_chunk, chevauchement, top_k>>

\* Lines 143-180.
Envoyer(q, replique, ecriture_ok) ==
    /\ NonBlanche(q)
    /\ question' = q
    /\ horloge < MaxLignes
    /\ NbLignes < MaxLignes
    /\ dernier' = "envoyer"
    /\ UNCHANGED <<dossier_existe, docs, taille_chunk, chevauchement, top_k>>
    /\ LET lu == lire_et_chunker_pdfs(dossier_existe, docs, taille_chunk, chevauchement)
           ix == construire_index(lu.chunks)
       IN  /\ chunks' = lu.chunks
           /\ metadatas' = lu.metadatas
           /\ avertissements' = lu.avertissements
           /\ IF lu.exception # "aucune"
              THEN indices' = <<>> /\ passages' = <<>> /\ AvantPrompt(lu.exception)
              ELSE IF ix.exception # "aucune"
              THEN indices' = <<>> /\ passages' = <<>> /\ AvantPrompt(ix.exception)
              ELSE \E ind \in Recherches(ix.index, EncoderQuestion(q), top_k) :
                     LET rp == rechercher_passages(lu.chunks, ind)
                     IN  /\ indices' = ind
                         /\ passages' = rp.passages
                         /\ IF rp.exception # "aucune"
                            THEN AvantPrompt(rp.exception)
                            ELSE /\ prompt' = [envoye |-> TRUE, passages |-> rp.passages]
                                 /\ ApresPrompt(q, replique, ecriture_ok)

(***************************************************************************)
(* onglets[4]: the button "Ajouter au corpus".                             *)
(***************************************************************************)
\* The listing once the file nom holds contenu: an existing file keeps its
\* place, a new one takes the place pos of the listing.
Ecrire(liste, nom, contenu, pos) ==
    IF \E i \in 1..Len(liste) : liste[i].nom = nom
    THEN [i \in 1..Len(liste) |->
             IF liste[i].nom = nom THEN Fichier(nom, contenu) ELSE liste[i]]
    ELSE SubSeq(liste, 1, pos - 1) \o <<Fichier(nom, contenu)>>
            \o SubSeq(liste, pos, Len(liste))

\* Lines 328-345; echec names the call that raises, if any.
AjouterDocument(nom, contenu, echec) ==
    /\ dernier' = "ajouter"
    /\ prompt' = PasDePrompt
    /\ reponse_affichee' = PasDeReponse
    /\ SansEchange
    /\ SansPipeline
    /\ UNCHANGED <<taille_chunk, chevauchement, top_k, question>>
    /\ CASE echec = "makedirs" ->
              /\ exception' = "OSError"
              /\ UNCHANGED <<dossier_existe, docs>>
         [] echec = "open" ->
              /\ exception' = "OSError"
              /\ dossier_existe' = TRUE
              /\ UNCHANGED docs
         [] OTHER ->
              /\ exception' = "aucune"
              /\ dossier_existe' = TRUE
              /\ \E pos \in 1..(Len(docs) + 1) : docs' = Ecrire(docs, nom, contenu, pos)

(***************************************************************************)
(* A new session (lines 125-126) and the log file between two runs.        *)
(***************************************************************************)
NouvelleSession ==
    /\ historique' = charger_historique_persistant(journal_existe, journal)
    /\ dernier' = "session"
    /\ exception' = "aucune"
    /\ question' = <<>>
    /\ prompt' = PasDePrompt
    /\ reponse_affichee' = PasDeReponse
    /\ SansPipeline
    /\ UNCHANGED <<dossier_existe, docs, taille_chunk, chevauchement, top_k,
                   journal_existe, journal, ecrits, horloge>>

\* A line that is not an exchange gets into conversations.jsonl.
AltererJournal(ligne) ==
    /\ NbLignes < MaxLignes
    /\ journal' = journal \o ligne
    /\ journal_existe' = TRUE
    /\ UNCHANGED <<dossier_existe, docs, taille_chunk, chevauchement, top_k, question,
                   chunks, metadatas, avertissements, indices, passages, prompt,
                   dernier, exception, reponse_affichee, historique, ecrits, horloge>>

\* The session and its log, over a corpus of at most one document.
Next ==
    \/ \E q \in Questions, r \in Repliques, ok \in BOOLEAN : Envoyer(q, r, ok)
    \/ \E q \in Questions : EnvoyerVide(q)
    \/ \E e \in {"aucun", "makedirs", "open"} :
          AjouterDocument("a.pdf", Lisible(T300), e)
    \/ NouvelleSession
    \/ \E l \in LignesMalformees : AltererJournal(l)

Spec == Init /\ [][Next]_vars

\* The corpus and the questions over it, the generation service answering or
\* unreachable and the log writable.
RepliquesCorpus ==
    { [genre |-> "ConnectionError", corps |-> <<>>],
      [genre |-> "json", corps |-> ("response" :> TexteReponse)] }

NextCorpus ==
    \/ \E q \in Questions, r \in RepliquesCorpus : Envoyer(q, r, TRUE)
    \/ \E q \in Questions : EnvoyerVide(q)
    \/ \E n \in NomsAjout, c \in ContenusAjout, e \in {"aucun", "makedirs", "open"} :
          AjouterDocument(n, c, e)

SpecCorpus == InitCorpus /\ [][NextCorpus]_vars

(***************************************************************************)
(* Direct calls of lire_et_chunker_pdfs, construire_index and              *)
(* rechercher_passages on drawn arguments.                                 *)
(***************************************************************************)
Configurations == {<<500, 100>>, <<300, 100>>, <<500, 500>>, <<100, 500>>}

Longueurs == 0..MaxLongueur

Blancs == {<<0, 0>>, <<0, 900>>, <<400, 900>>, <<400, 1300>>, <<0, MaxLongueur>>}

TextesTires ==
    {Texte(n, b[1], Min(b[2], n)) : n \in Longueurs, b \in {x \in Blancs : x[1] = 0}}
    \cup {Texte(n, b[1], Min(b[2], n)) :
             n \in {x \in Longueurs : x >= 400}, b \in {x \in Blancs : x[1] > 0}}

\* Directories of one drawn text.
DossiersUnTexte == {<<Fichier("a.pdf", Lisible(t))>> : t \in TextesTires}

\* Directories of several files.
DossiersTires ==
    DossiersCorpus
    \cup { <<Fichier("a.pdf", Lisible(T600)), Fichier("notes.txt", Lisible(T300)),
             Fichier("B.PDF", Illisible)>>,
           <<Fichier("B.PDF", Illisible), Fichier("a.pdf", Lisible(T600))>>,
           <<Fichier("B.PDF", Lisible(TTrou)), Fichier("a.pdf", Lisible(T600))>>,
           <<Fichier("a.pdf", Lisible(T300)), Fichier("B.PDF", Lisible(T600))>> }

InitFonctions ==
    /\ InitCommun
    /\ journal_existe = FALSE
    /\ dossier_existe = TRUE
    /\ \E c \in Configurations : taille_chunk = c[1] /\ chevauchement = c[2]
    /\ \/ docs \in DossiersUnTexte /\ top_k = TopKDefaut
       \/ docs \in DossiersTires /\ top_k \in 1..MaxTopK

\* chunks, metadatas = lire_et_chunker_pdfs("docs", taille_chunk, chevauchement)
AppelLireEtChunker ==
    /\ dernier = "aucune"
    /\ LET lu == lire_et_chunker_pdfs(dossier_existe, docs, taille_chunk, chevauchement)
       IN  /\ chunks' = lu.chunks
           /\ metadatas' = lu.metadatas
           /\ avertissements' = lu.avertissements
           /\ exception' = lu.exception
    /\ dernier' = "lire_et_chunker_pdfs"
    /\ UNCHANGED <<dossier_existe, docs, taille_chunk, chevauchement, top_k, question,
                   indices, passages, prompt, reponse_affichee, historique,
                   journal_existe, journal, ecrits, horloge>>

\* index, _ = construire_index(chunks)
\* passages = rechercher_passages(question, chunks, index, top_k)
AppelRecherche(q) ==
    /\ dernier = "lire_et_chunker_pdfs"
    /\ exception = "aucune"
    /\ question' = q
    /\ LET ix == construire_index(chunks)
       IN  IF ix.exception # "aucune"
           THEN /\ exception' = ix.exception
                /\ dernier' = "construire_index"
                /\ UNCHANGED <<indices, passages>>
           ELSE \E ind \in Recherches(ix.index, EncoderQuestion(q), top_k) :
                  LET rp == rechercher_passages(chunks, ind)
                  IN  /\ indices' = ind
                      /\ passages' = rp.passages
                      /\ exception' = rp.exception
                      /\ dernier' = "rechercher_passages"
    /\ UNCHANGED <<dossier_existe, docs, taille_chunk, chevauchement, top_k, chunks,
                   metadatas, avertissements, prompt, reponse_affichee, historique,
                   journal_existe, journal, ecrits, horloge>>

NextFonctions ==
    \/ AppelLireEtChunker
    \/ \E q \in {QuestionSimple, QuestionSpeciale} : AppelRecherche(q)

SpecFonctions == InitFonctions /\ [][NextFonctions]_vars

(***************************************************************************)
(* What a run of lire_et_chunker_pdfs owes its directory, said of the      *)
(* texts position by position.                                             *)
(***************************************************************************)
Plafond(a, b) == (a + b - 1) \div b

\* The starts of the windows of a text, for a step pas > 0.
Debuts(t, pas) == {s \in 0..(t.len - 1) : s % pas = 0}

\* The window of tc characters at s holds a character outside the
\* whitespace of the text.
FenetreNonBlanche(t, s, tc) ==
    \E p \in s..(Min(s + tc, t.len) - 1) : ~(t.bdeb <= p /\ p < t.bfin)

PdfLisibles(liste) ==
    {n \in 1..Len(liste) : EstPdf(liste[n].nom) /\ liste[n].contenu.lisible}

PdfIllisibles(liste) ==
    {n \in 1..Len(liste) : EstPdf(liste[n].nom) /\ ~liste[n].contenu.lisible}

\* cs[i] is a window of the text of the readable PDF named ms[i].
Provenance(cs, ms, liste, tc, pas) ==
    /\ Len(cs) = Len(ms)
    /\ \A i \in 1..Len(cs) :
          \E n \in PdfLisibles(liste) :
             /\ liste[n].nom = ms[i]
             /\ cs[i].txt = liste[n].contenu.texte
             /\ cs[i].deb \in Debuts(cs[i].txt, pas)
             /\ cs[i].fin = Min(cs[i].deb + tc, cs[i].txt.len)
             /\ FenetreNonBlanche(cs[i].txt, cs[i].deb, tc)

\* Every window of every readable PDF that is not blank is in cs, once.
Completude(cs, ms, liste, tc, pas) ==
    /\ \A n \in PdfLisibles(liste) :
          \A s \in Debuts(liste[n].contenu.texte, pas) :
             FenetreNonBlanche(liste[n].contenu.texte, s, tc) =>
                \E i \in 1..Len(cs) :
                   /\ ms[i] = liste[n].nom
                   /\ cs[i].txt = liste[n].contenu.texte
                   /\ cs[i].deb = s
    /\ \A i, j \in 1..Len(cs) :
          i < j /\ Len(cs) = Len(ms) => ~(ms[i] = ms[j] /\ cs[i].deb = cs[j].deb)

ParDefaut ==
    /\ taille_chunk = TailleChunkDefaut
    /\ chevauchement = ChevauchementDefaut

Pas == taille_chunk - chevauchement

(***************************************************************************)
(* C1  rechercher_passages, 1 <= top_k <= N                                *)
(***************************************************************************)
DistancePassage(j) == Distance(EncoderChunk(passages[j]), EncoderQuestion(question))

\* C1: when the index holds N chunks and 1 <= top_k <= N, the search returns
\* exactly top_k passages, each the chunk of a distinct position of the
\* corpus, ordered by ascending distance to the question's vector.
C1_TopK ==
    (dernier = "rechercher_passages" /\ 1 <= top_k /\ top_k <= Len(chunks)) =>
        /\ exception = "aucune"
        /\ Len(passages) = top_k
        /\ Len(indices) = top_k
        /\ \A j \in 1..top_k :
              /\ indices[j] \in 0..(Len(chunks) - 1)
              /\ passages[j] = chunks[indices[j] + 1]
        /\ \A i, j \in 1..top_k :
              i < j => indices[i] # indices[j]
                       /\ DistancePassage(i) <= DistancePassage(j)

C1_Temoin ==
    /\ dernier = "rechercher_passages"
    /\ top_k = TopKDefaut
    /\ Len(chunks) > top_k
    /\ Len(passages) = top_k
    /\ DistancePassage(1) < DistancePassage(top_k)

(***************************************************************************)
(* C2  rechercher_passages, 0 < N < top_k                                  *)
(***************************************************************************)
\* C2: when the index holds N chunks with 0 < N < top_k, the search returns
\* exactly N passages, each the chunk of a distinct position, and no padding
\* label is mapped back to a chunk.
C2_Borne ==
    (dernier = "rechercher_passages" /\ 0 < Len(chunks) /\ Len(chunks) < top_k) =>
        /\ exception = "aucune"
        /\ Len(passages) = Len(chunks)
        /\ \A j \in 1..Len(indices) : indices[j] >= 0
        /\ \A i, j \in 1..Len(indices) : i < j => indices[i] # indices[j]

(***************************************************************************)
(* C3  the question action over a corpus without chunks                    *)
(***************************************************************************)
\* C3: when the directory yields no chunk, the retrieval returns no passage
\* without raising and the prompt is posted with zero passages.
C3_CorpusVide ==
    (dernier = "envoyer" /\ dossier_existe /\ chunks = <<>>) =>
        /\ passages = <<>>
        /\ exception # "IndexError"
        /\ prompt = [envoye |-> TRUE, passages |-> <<>>]

(***************************************************************************)
(* C4  chevauchement >= taille_chunk                                       *)
(***************************************************************************)
\* C4: lire_et_chunker_pdfs called with chevauchement >= taille_chunk ends
\* with an error, not with a normal (chunks, metadatas) result.
C4_Rejet ==
    (dernier = "lire_et_chunker_pdfs" /\ chevauchement >= taille_chunk) =>
        exception # "aucune"

(***************************************************************************)
(* C5  the windows of one text, taille_chunk = 500, chevauchement = 100    *)
(***************************************************************************)
UnSeulTexte ==
    /\ dernier = "lire_et_chunker_pdfs"
    /\ ParDefaut
    /\ Len(docs) = 1
    /\ EstPdf(docs[1].nom)
    /\ docs[1].contenu.lisible

Longueur == docs[1].contenu.texte.len

Commun(i) == chunks[i].fin - chunks[i + 1].deb

\* C5 as claimed: the number of chunks is within 1 of ceil(L / 400), each
\* chunk shares exactly min(100, remaining length) characters with the next
\* one, and only the final chunk is shorter than 500.
C5_Original ==
    UnSeulTexte =>
        /\ Len(chunks) - Plafond(Longueur, Pas) \in -1..1
        /\ \A i \in 1..(Len(chunks) - 1) :
              /\ Commun(i) = Min(chevauchement, Longueur - chunks[i + 1].deb)
              /\ chunks[i].fin - chunks[i].deb = taille_chunk

\* C5 amended: the number of chunks is ceil(L / 400) less the number of
\* whitespace-only windows; two chunks of consecutive windows share exactly
\* min(100, remaining length) characters; only the chunks of the final two
\* windows are shorter than 500.
C5_Fenetres ==
    UnSeulTexte =>
        LET t == docs[1].contenu.texte
            blanches == {s \in Debuts(t, Pas) : ~FenetreNonBlanche(t, s, taille_chunk)}
        IN  /\ Cardinality(Debuts(t, Pas)) = Plafond(Longueur, Pas)
            /\ Len(chunks) = Plafond(Longueur, Pas) - Cardinality(blanches)
            /\ \A i \in 1..Len(chunks) :
                  /\ chunks[i].deb \in Debuts(t, Pas) \ blanches
                  /\ chunks[i].deb < Pas * (Plafond(Longueur, Pas) - 2) =>
                        chunks[i].fin - chunks[i].deb = taille_chunk
            /\ \A i \in 1..(Len(chunks) - 1) :
                  /\ chunks[i].deb < chunks[i + 1].deb
                  /\ chunks[i + 1].deb = chunks[i].deb + Pas =>
                        Commun(i) = Min(chevauchement, Longueur - chunks[i + 1].deb)

C5_Temoin ==
    /\ UnSeulTexte
    /\ Len(chunks) >= 2
    /\ Len(chunks) < Plafond(Longueur, Pas) - 1
    /\ \E i \in 1..(Len(chunks) - 1) : chunks[i + 1].deb = chunks[i].deb + Pas

(***************************************************************************)
(* C6  a document that fails in a directory of several                     *)
(***************************************************************************)
\* C6: a PDF that cannot be opened or extracted is reported by a warning and
\* contributes no chunk, every readable PDF contributes all its chunks,
\* chunks and metadatas have the same length and metadatas[i] names the file
\* chunks[i] is a slice of.
C6_ParDocument ==
    (dernier = "lire_et_chunker_pdfs" /\ Pas > 0) =>
        /\ exception = "aucune"
        /\ Len(chunks) = Len(metadatas)
        /\ Provenance(chunks, metadatas, docs, taille_chunk, Pas)
        /\ Completude(chunks, metadatas, docs, taille_chunk, Pas)
        /\ \A n \in PdfIllisibles(docs) :
              /\ docs[n].nom \in avertissements
              /\ \A i \in 1..Len(metadatas) : metadatas[i] # docs[n].nom
        /\ \A n \in PdfLisibles(docs) : docs[n].nom \notin avertissements

C6_Temoin ==
    /\ dernier = "lire_et_chunker_pdfs"
    /\ ParDefaut
    /\ PdfIllisibles(docs) = {1}
    /\ PdfLisibles(docs) = {2}
    /\ avertissements = {docs[1].nom}
    /\ Len(chunks) = 2
    /\ metadatas = <<docs[2].nom, docs[2].nom>>

(***************************************************************************)
(* C7  the log written by sauvegarder_echange and read back                *)
(***************************************************************************)
\* C7: a session that starts on the log loads exactly the (question,
\* reponse) pairs sauvegarder_echange wrote, in the order of the file,
\* whatever malformed lines stand between them.
C7_Relecture == dernier = "session" => historique = ecrits

C7_Temoin ==
    /\ dernier = "session"
    /\ Len(historique) = 1
    /\ NbLignes = 2
    /\ Lignes(journal, 1, <<>>, <<>>)[1] \in LignesMalformees
    /\ historique[1].question = QuestionSpeciale

(***************************************************************************)
(* C8  a question action that fails                                        *)
(***************************************************************************)
\* C8: a question action that ends in st.error leaves
\* st.session_state["historique"] as it was before the action.
C8_HistoriqueIntact ==
    [][(dernier' = "envoyer" /\ exception' # "aucune") => historique' = historique]_vars

(***************************************************************************)
(* C9  a reply without "response", or with an empty one                    *)
(***************************************************************************)
\* C9: the answer a question action shows and records in the history and in
\* the log is never the empty string.
C9_JamaisVide ==
    /\ (dernier = "envoyer" /\ reponse_affichee.montree) =>
          reponse_affichee.texte # <<>>
    /\ \A i \in 1..Len(historique) : historique[i].reponse # <<>>
    /\ \A i \in 1..Len(ecrits) : ecrits[i].reponse # <<>>

(***************************************************************************)
(* C10  the corpus a question searches                                     *)
(***************************************************************************)
\* The chunks of the last question are those of the PDF files of docs.
ChunksDuDossier ==
    /\ Provenance(chunks, metadatas, docs, taille_chunk, Pas)
    /\ Completude(chunks, metadatas, docs, taille_chunk, Pas)

\* An upload that succeeds leaves one file per name, keeps the files of the
\* other names and adds at most one file.
AjoutRemplace ==
    (dernier' = "ajouter" /\ exception' = "aucune") =>
        /\ \A i, j \in 1..Len(docs') : i < j => docs'[i].nom # docs'[j].nom
        /\ Len(docs') \in {Len(docs), Len(docs) + 1}
        /\ \E n \in 1..Len(docs') :
              \A f \in Range(docs) : f.nom # docs'[n].nom => f \in Range(docs')

\* A question asked right after another over the same directory searches the
\* same chunks.
MemeCorpus ==
    (dernier = "envoyer" /\ dernier' = "envoyer"
        /\ dossier_existe' = dossier_existe /\ docs' = docs) =>
        chunks' = chunks /\ metadatas' = metadatas

\* C10: the chunks a question searches are exactly those of the PDF files in
\* the directory when it is asked, uploads made since the previous question
\* included, and the same again when the directory has not changed.
C10_SansCache ==
    /\ [](dernier = "envoyer" /\ dossier_existe => ChunksDuDossier)
    /\ [][AjoutRemplace /\ MemeCorpus]_vars

C10_Temoin ==
    /\ dernier = "envoyer"
    /\ docs = <<Fichier("a.pdf", Lisible(T300)), Fichier("B.PDF", Illisible)>>
    /\ metadatas = <<"a.pdf">>
    /\ Len(chunks) = 1
    /\ chunks[1].txt = T300
    /\ Len(ecrits) = 2

====
